---- MODULE Spec2Model ----
(***************************************************************************)
(* Model of s3upload/miniwdl_s3upload.py: the progressive S3 uploader, its *)
(* call-cache backend and the workflow finalizer.                          *)
(*                                                                         *)
(* Strings that are paths or URIs are sequences of their components, so    *)
(* os.path.join is concatenation and os.path.basename is the last          *)
(* component.  A local path is <<"out", tag, name, ...>>: tag names the     *)
(* file object that os.path.realpath + os.stat resolve the path to, so two *)
(* paths with one tag are hard links or symlinks of one file.              *)
(*                                                                         *)
(* Threads run one operation each.  A `with lock:' block is entered by the *)
(* step that takes the lock and left by the step that frees it; a block    *)
(* that performs no call to the outside is one step.  Remote store calls   *)
(* (put, put_object_tagging) return; the copy tool and the cache download  *)
(* may fail.                                                               *)
(***************************************************************************)
EXTENDS Integers, Sequences, FiniteSets, TLC

\* ------------------------------------------------------------- bounds
NumFiles == 2          \* file objects (inodes) on the local disk
MaxBindings == 2       \* output bindings of one call
MaxOutputs == 2        \* output parameters under one task's out/
MaxEntries == 1        \* files of one directory or array output

\* ------------------------------------------------------------- universe
FileInodes == 1..NumFiles
DirInode == NumFiles + 1
Inodes == FileInodes \cup {DirInode}
Names == {"a", "b"}
Keys == {"k1", "k2"}

TaskThreads == {"t1", "t2"}
PutThreads == {"p1", "p2"}
GetThreads == {"g1"}
WorkflowThreads == {"w1"}
Threads == TaskThreads \cup PutThreads \cup GetThreads \cup WorkflowThreads

NoThread == "none"
Backend == "s3_progressive_upload_call_cache_backend"
S3Prefix == <<"s3://bucket/run">>
S3GetPrefix == <<"s3://bucket/shared">>
EmptyStr == <<>>

\* ------------------------------------------------------------- paths
join(p, q) == p \o q
basename(p) == p[Len(p)]
\* os.path.relpath(abs_fn, abs_output): the components below out/<output>
relpath(p) == SubSeq(p, 3, Len(p))
LocalPath(i, n) == <<"out", ToString(i), n>>
\* inode(link): the identity of the file the path resolves to
inode(p) == CHOOSE i \in Inodes : ToString(i) = p[2]

\* ------------------------------------------------------------- values
IntValue == [type |-> "Int", value |-> <<"7">>]
FileValue(p) == [type |-> "File", value |-> p]
DirectoryValue(p) == [type |-> "Directory", value |-> p]
Values ==
    {IntValue}
        \cup {FileValue(LocalPath(i, "a")) : i \in FileInodes}
        \cup {DirectoryValue(LocalPath(DirInode, "a"))}
IsPath(v) == v.type \in {"File", "Directory"}
Bindings == UNION {[1..n -> Values] : n \in 1..MaxBindings}

\* the identities that the File and Directory values of the bindings name
Refs(outputs) == {inode(outputs[i].value) : i \in {j \in 1..Len(outputs) : IsPath(outputs[j])}}

VARIABLES
    cfg,                  \* the host's configuration
    uploaded_files,       \* _uploaded_files: inode -> S3 URI
    cached_files,         \* _cached_files: inode -> (key, outputs)
    uploaded_files_lock,  \* holder of _uploaded_files_lock
    s3parcp_lock,         \* holder of _s3parcp_lock
    pc,                   \* where each thread is
    frame,                \* each thread's arguments and locals; seen is what
                          \* its locked block found in the ledger for the
                          \* identities its bindings reference
    s3_objects,           \* the cache manifests in the bucket: URI -> object
    s3_puts,              \* s3_object(uri).put calls for each cache key
    s3_copies,            \* s3parcp invocations of each thread
    s3_downloads,         \* every s3_client.download_file
    local_files,          \* files written to the run directory
    warnings              \* logger.warning calls of the finalizer

vars == <<cfg, uploaded_files, cached_files, uploaded_files_lock, s3parcp_lock,
          pc, frame, s3_objects, s3_puts, s3_copies, s3_downloads, local_files, warnings>>

Put(f, k, v) == [x \in DOMAIN f \cup {k} |-> IF x = k THEN v ELSE f[x]]
Restrict(f, S) == [x \in DOMAIN f \cap S |-> f[x]]

NoFrame ==
    [op |-> "", key |-> "", outputs |-> <<>>, download |-> FALSE,
     abs_fn |-> <<>>, s3uri |-> <<>>, kind |-> "", dir |-> "",
     n_outputs |-> 0, n_files |-> 0,
     cache_key |-> "", cache_outputs |-> <<>>, cache_uri |-> <<>>, body |-> <<>>,
     returncode |-> 0, seen |-> <<>>, ret |-> "", err |-> "", result |-> ""]

Configs ==
    [uri_prefix : BOOLEAN, call_cache_get_uri_prefix : BOOLEAN, put : BOOLEAN,
     backend : {Backend}]

Init ==
    /\ cfg \in Configs
    /\ uploaded_files = <<>>
    /\ cached_files = <<>>
    /\ uploaded_files_lock = NoThread
    /\ s3parcp_lock = NoThread
    /\ pc = [t \in Threads |-> "idle"]
    /\ frame = [t \in Threads |-> NoFrame]
    /\ s3_objects = <<>>
    /\ s3_puts = [k \in Keys |-> 0]
    /\ s3_copies = [t \in Threads |-> 0]
    /\ s3_downloads = {}
    /\ local_files = {}
    /\ warnings = 0

\* ------------------------------------------------------------- cache_put
KeyFile == [k1 |-> "k1.json", k2 |-> "k2.json"]

\* cache() returning the local path of an uploaded value instead of its URI
RECURSIVE cache_remap_local(_, _, _, _, _)
cache_remap_local(ledger, outputs, i, missing, acc) ==
    IF i > Len(outputs)
    THEN [missing |-> missing, remapped |-> acc]
    ELSE IF ~IsPath(outputs[i])
    THEN cache_remap_local(ledger, outputs, i + 1, missing, Append(acc, outputs[i]))
    ELSE LET m == missing \/ inode(outputs[i].value) \notin DOMAIN ledger
             u == IF m THEN EmptyStr ELSE outputs[i].value
         IN  cache_remap_local(ledger, outputs, i + 1, m,
                               Append(acc, [type |-> outputs[i].type, value |-> u]))

\* the closure cache() of cache_put applied to the bindings in order: once a
\* value is missing every later value maps to ""
RECURSIVE cache_remap(_, _, _, _, _)
cache_remap(ledger, outputs, i, missing, acc) ==
    IF i > Len(outputs)
    THEN [missing |-> missing, remapped |-> acc]
    ELSE IF ~IsPath(outputs[i])
    THEN cache_remap(ledger, outputs, i + 1, missing, Append(acc, outputs[i]))
    ELSE LET m == missing \/ inode(outputs[i].value) \notin DOMAIN ledger
             u == IF m THEN EmptyStr ELSE ledger[inode(outputs[i].value)]
         IN  cache_remap(ledger, outputs, i + 1, m,
                         Append(acc, [type |-> outputs[i].type, value |-> u]))

\* cache_put without the test of `missing'
cache_put_unchecked(c, ledger, key, outputs) ==
    LET r == cache_remap(ledger, outputs, 1, FALSE, <<>>)
    IN  IF ~(c.put /\ c.backend = Backend)
        THEN [act |-> "return", uri |-> <<>>, body |-> <<>>]
        ELSE IF ~c.uri_prefix
        THEN [act |-> "raise", uri |-> <<>>, body |-> <<>>]
        ELSE [act |-> "put",
              uri |-> join(S3Prefix, <<"cache", KeyFile[key]>>),
              body |-> r.remapped]

\* cache_put up to its first call to the outside: what it is about to do
cache_put(c, ledger, key, outputs) ==
    LET r == cache_remap(ledger, outputs, 1, FALSE, <<>>)
    IN  IF ~(c.put /\ c.backend = Backend)
        THEN [act |-> "return", uri |-> <<>>, body |-> <<>>]
        ELSE IF r.missing
        THEN [act |-> "return", uri |-> <<>>, body |-> <<>>]
        ELSE IF ~c.uri_prefix
        THEN [act |-> "raise", uri |-> <<>>, body |-> <<>>]
        ELSE [act |-> "put",
              uri |-> join(S3Prefix, <<"cache", KeyFile[key]>>),
              body |-> r.remapped]

\* the thread's next position after cache_put's decision d, called under the
\* lock by thread t, which continues at `after' once the lock is released
AfterCachePut(t, fr, d, key, outputs, after) ==
    /\ pc' = [pc EXCEPT ![t] =
                CASE d.act = "put" -> "put_object"
                  [] d.act = "raise" -> "failed"
                  [] OTHER -> "unlock"]
    /\ uploaded_files_lock' = IF d.act = "raise" THEN NoThread ELSE t
    /\ frame' = [fr EXCEPT ![t].cache_key = IF d.act = "put" THEN key ELSE "",
                              ![t].cache_outputs = IF d.act = "put" THEN outputs ELSE <<>>,
                              ![t].cache_uri = d.uri,
                              ![t].body = d.body,
                              ![t].ret = after,
                              ![t].err = IF d.act = "raise" THEN "ConfigError" ELSE ""]

\* s3_object(uri).put(Body=...)
CachePutObject(t) ==
    /\ pc[t] = "put_object"
    /\ s3_objects' = Put(s3_objects, frame[t].cache_uri,
                         [body |-> frame[t].body, tagged |-> FALSE])
    /\ s3_puts' = [s3_puts EXCEPT ![frame[t].cache_key] = @ + 1]
    /\ pc' = [pc EXCEPT ![t] = "flag_temporary"]
    /\ UNCHANGED <<cfg, uploaded_files, cached_files, uploaded_files_lock,
                   s3parcp_lock, frame, s3_copies, s3_downloads, local_files,
                   warnings>>

\* flag_temporary(uri)
CacheFlagTemporary(t) ==
    /\ pc[t] = "flag_temporary"
    /\ s3_objects' = [s3_objects EXCEPT ![frame[t].cache_uri].tagged = TRUE]
    /\ pc' = [pc EXCEPT ![t] = "unlock"]
    /\ UNCHANGED <<cfg, uploaded_files, cached_files, uploaded_files_lock,
                   s3parcp_lock, frame, s3_puts, s3_copies, s3_downloads,
                   local_files, warnings>>

\* the locals of upload_file and cache_put end with the call
Returned(f) ==
    IF f.op = "task"
    THEN [f EXCEPT !.abs_fn = <<>>, !.s3uri = <<>>, !.cache_key = "",
                   !.cache_outputs = <<>>, !.cache_uri = <<>>, !.body = <<>>, !.ret = ""]
    ELSE f

\* leaving `with _uploaded_files_lock:'
Unlock(t) ==
    /\ pc[t] = "unlock"
    /\ uploaded_files_lock' = NoThread
    /\ pc' = [pc EXCEPT ![t] = frame[t].ret]
    /\ frame' = [frame EXCEPT ![t] = Returned(frame[t])]
    /\ UNCHANGED <<cfg, uploaded_files, cached_files, s3parcp_lock, s3_objects,
                   s3_puts, s3_copies, s3_downloads, local_files, warnings>>

\* ------------------------------------------------------------- CallCache.put
\* the closure cache() of CallCache.put applied to the bindings in order
RECURSIVE put_register(_, _, _, _)
put_register(registry, key, outputs, i) ==
    IF i > Len(outputs)
    THEN registry
    ELSE IF ~IsPath(outputs[i])
    THEN put_register(registry, key, outputs, i + 1)
    ELSE put_register(
            Put(registry, inode(outputs[i].value), [key |-> key, outputs |-> outputs]),
            key, outputs, i + 1)

\* the host derives the key from the call: each insert has its own
KeyOf == [p1 |-> "k1", p2 |-> "k2"]

CallCachePut(t) ==
    /\ pc[t] = "idle"
    /\ cfg.backend = Backend
    /\ pc' = [pc EXCEPT ![t] = IF ~cfg.put THEN "done" ELSE "put_lock"]
    /\ frame' = [frame EXCEPT ![t].op = "put"]
    /\ UNCHANGED <<cfg, uploaded_files, cached_files, uploaded_files_lock,
                   s3parcp_lock, s3_objects, s3_puts, s3_copies, s3_downloads,
                   local_files, warnings>>

\* with _uploaded_files_lock: rewrite_env_paths(outputs, cache); cache_put(...)
CallCachePutLocked(t) ==
    /\ pc[t] = "put_lock"
    /\ uploaded_files_lock = NoThread
    /\ \E key \in {KeyOf[t]}, outputs \in Bindings :
        /\ cached_files' = put_register(cached_files, key, outputs, 1)
        /\ AfterCachePut(t, [frame EXCEPT ![t].key = key, ![t].outputs = outputs,
                                          ![t].seen = Restrict(uploaded_files, Refs(outputs))],
                         cache_put(cfg, uploaded_files, key, outputs), key, outputs,
                         "done")
    /\ UNCHANGED <<cfg, uploaded_files, s3parcp_lock, s3_objects, s3_puts,
                   s3_copies, s3_downloads, local_files, warnings>>

\* ------------------------------------------------------------- s3cp
\* s3cp running the copy tool without taking _s3parcp_lock
S3cpRun_unguarded(t) ==
    /\ pc[t] = "s3cp"
    /\ s3parcp_lock' = t
    /\ s3_copies' = [s3_copies EXCEPT ![t] = @ + 1]
    /\ pc' = [pc EXCEPT ![t] = "s3parcp"]
    /\ UNCHANGED <<cfg, uploaded_files, cached_files, uploaded_files_lock,
                   frame, s3_objects, s3_puts, s3_downloads, local_files,
                   warnings>>

\* with _s3parcp_lock: subprocess.run(["s3parcp", fn, s3uri])
S3cpRun(t) ==
    /\ pc[t] = "s3cp"
    /\ s3parcp_lock = NoThread
    /\ s3parcp_lock' = t
    /\ s3_copies' = [s3_copies EXCEPT ![t] = @ + 1]
    /\ pc' = [pc EXCEPT ![t] = "s3parcp"]
    /\ UNCHANGED <<cfg, uploaded_files, cached_files, uploaded_files_lock,
                   frame, s3_objects, s3_puts, s3_downloads, local_files,
                   warnings>>

\* s3cp without the test of the exit status
s3cp_exit_ignored(t, returncode) ==
    /\ s3parcp_lock' = NoThread
    /\ pc' = [pc EXCEPT ![t] = frame[t].ret]
    /\ frame' = [frame EXCEPT ![t].returncode = returncode]

\* s3cp raising on a non-zero status without leaving `with _s3parcp_lock:'
s3cp_exit_leaky(t, returncode) ==
    IF returncode # 0
    THEN /\ s3parcp_lock' = s3parcp_lock
         /\ pc' = [pc EXCEPT ![t] = "failed"]
         /\ frame' = [frame EXCEPT ![t].returncode = returncode,
                                   ![t].err = "RuntimeError"]
    ELSE /\ s3parcp_lock' = NoThread
         /\ pc' = [pc EXCEPT ![t] = frame[t].ret]
         /\ frame' = [frame EXCEPT ![t].returncode = returncode]

\* the copy tool exits with returncode; a non-zero status raises RuntimeError
s3cp_exit(t, returncode) ==
    /\ s3parcp_lock' = NoThread
    /\ IF returncode # 0
       THEN /\ pc' = [pc EXCEPT ![t] = "failed"]
            /\ frame' = [frame EXCEPT ![t].returncode = returncode,
                                      ![t].err = "RuntimeError"]
       ELSE /\ pc' = [pc EXCEPT ![t] = frame[t].ret]
            /\ frame' = [frame EXCEPT ![t].returncode = returncode]

S3cpExit(t) ==
    /\ pc[t] = "s3parcp"
    /\ \E returncode \in {0, 1} : s3cp_exit(t, returncode)
    /\ UNCHANGED <<cfg, uploaded_files, cached_files, uploaded_files_lock,
                   s3_objects, s3_puts, s3_copies, s3_downloads, local_files,
                   warnings>>

\* ------------------------------------------------------------- task
\* the hook without the test of the run's token
task_skips_unconfigured(c, download) == ~c.uri_prefix

\* the hook up to the listing of out/: the two early returns
task_skips(c, download) == ~c.uri_prefix \/ download

TaskCall(t) ==
    /\ pc[t] = "idle"
    /\ \E download \in BOOLEAN :
        /\ frame' = [frame EXCEPT ![t].op = "task", ![t].download = download]
        /\ pc' = [pc EXCEPT ![t] =
                    IF task_skips(cfg, download) THEN "done" ELSE "listdir"]
    /\ UNCHANGED <<cfg, uploaded_files, cached_files, uploaded_files_lock,
                   s3parcp_lock, s3_objects, s3_puts, s3_copies, s3_downloads,
                   local_files, warnings>>

\* the loop over os.listdir(links_dir) has no further output
TaskReturn(t) ==
    /\ pc[t] = "listdir"
    /\ pc' = [pc EXCEPT ![t] = "done"]
    /\ UNCHANGED <<cfg, uploaded_files, cached_files, uploaded_files_lock,
                   s3parcp_lock, frame, s3_objects, s3_puts, s3_copies,
                   s3_downloads, local_files, warnings>>

\* the next output holds one regular file
TaskFileOutput(t) ==
    /\ pc[t] = "listdir"
    /\ frame[t].n_outputs < MaxOutputs
    /\ \E i \in FileInodes, n \in Names :
        frame' = [frame EXCEPT ![t].n_outputs = @ + 1,
                               ![t].kind = "file",
                               ![t].n_files = 1,
                               ![t].abs_fn = LocalPath(i, n),
                               ![t].s3uri = join(S3Prefix, <<basename(LocalPath(i, n))>>),
                               ![t].ret = "record"]
    /\ pc' = [pc EXCEPT ![t] = "s3cp"]
    /\ UNCHANGED <<cfg, uploaded_files, cached_files, uploaded_files_lock,
                   s3parcp_lock, s3_objects, s3_puts, s3_copies, s3_downloads,
                   local_files, warnings>>

\* the URI a directory output is recorded under
dir_uri(p) == join(join(S3Prefix, <<basename(p)>>), <<"">>)

\* the next output holds one symlinked directory: its identity is recorded
TaskDirectoryOutput(t) ==
    /\ pc[t] = "listdir"
    /\ frame[t].n_outputs < MaxOutputs
    /\ \E n \in Names :
        /\ frame' = [frame EXCEPT ![t].n_outputs = @ + 1,
                                  ![t].kind = "dir",
                                  ![t].n_files = 0,
                                  ![t].dir = n]
        /\ uploaded_files' = Put(uploaded_files, inode(LocalPath(DirInode, n)),
                                 dir_uri(LocalPath(DirInode, n)))
    /\ pc' = [pc EXCEPT ![t] = "walk"]
    /\ UNCHANGED <<cfg, cached_files, uploaded_files_lock, s3parcp_lock,
                   s3_objects, s3_puts, s3_copies, s3_downloads, local_files,
                   warnings>>

\* the next output holds index directories: the first one's file
TaskArrayOutput(t) ==
    /\ pc[t] = "listdir"
    /\ frame[t].n_outputs < MaxOutputs
    /\ \E i \in FileInodes, n \in Names :
        frame' = [frame EXCEPT ![t].n_outputs = @ + 1,
                               ![t].kind = "array",
                               ![t].n_files = 1,
                               ![t].abs_fn = <<"out", ToString(i), "0", n>>,
                               ![t].s3uri = join(S3Prefix, <<n>>),
                               ![t].ret = "record"]
    /\ pc' = [pc EXCEPT ![t] = "s3cp"]
    /\ UNCHANGED <<cfg, uploaded_files, cached_files, uploaded_files_lock,
                   s3parcp_lock, s3_objects, s3_puts, s3_copies, s3_downloads,
                   local_files, warnings>>

\* os.walk finds the next file of a directory output, or the next index
\* directory of an array output is taken
TaskNextEntry(t) ==
    /\ pc[t] = "walk"
    /\ frame[t].kind \in {"dir", "array"}
    /\ frame[t].n_files < MaxEntries
    /\ \E i \in FileInodes, n \in Names :
        LET abs_fn == IF frame[t].kind = "dir"
                      THEN <<"out", ToString(i), frame[t].dir, n>>
                      ELSE <<"out", ToString(i), ToString(frame[t].n_files), n>>
            s3uri == IF frame[t].kind = "dir"
                     THEN join(S3Prefix, relpath(abs_fn))
                     ELSE join(S3Prefix, <<n>>)
        IN  frame' = [frame EXCEPT ![t].n_files = @ + 1,
                                   ![t].abs_fn = abs_fn,
                                   ![t].s3uri = s3uri,
                                   ![t].ret = "record"]
    /\ pc' = [pc EXCEPT ![t] = "s3cp"]
    /\ UNCHANGED <<cfg, uploaded_files, cached_files, uploaded_files_lock,
                   s3parcp_lock, s3_objects, s3_puts, s3_copies, s3_downloads,
                   local_files, warnings>>

\* the output has no further file: on to the next output
TaskNextOutput(t) ==
    /\ pc[t] = "walk"
    /\ pc' = [pc EXCEPT ![t] = "listdir"]
    /\ UNCHANGED <<cfg, uploaded_files, cached_files, uploaded_files_lock,
                   s3parcp_lock, frame, s3_objects, s3_puts, s3_copies,
                   s3_downloads, local_files, warnings>>

\* upload_file without the look into the registry
upload_finalize_never(registry, ino) ==
    [found |-> FALSE, key |-> "", outputs |-> <<>>]

\* upload_file after s3cp: what the locked block does with the registry
upload_finalize(registry, ino) ==
    IF ino \in DOMAIN registry
    THEN [found |-> TRUE, key |-> registry[ino].key, outputs |-> registry[ino].outputs]
    ELSE [found |-> FALSE, key |-> "", outputs |-> <<>>]

\* with _uploaded_files_lock: record the URI, finalize a pending insert
UploadRecord(t) ==
    /\ pc[t] = "record"
    /\ uploaded_files_lock = NoThread
    /\ uploaded_files' = Put(uploaded_files, inode(frame[t].abs_fn), frame[t].s3uri)
    /\ LET e == upload_finalize(cached_files, inode(frame[t].abs_fn))
           after == IF frame[t].kind = "file" THEN "listdir" ELSE "walk"
       IN  IF e.found
           THEN AfterCachePut(t, frame, cache_put(cfg, uploaded_files', e.key, e.outputs),
                              e.key, e.outputs, after)
           ELSE /\ pc' = [pc EXCEPT ![t] = "unlock"]
                /\ uploaded_files_lock' = t
                /\ frame' = [frame EXCEPT ![t].ret = after]
    /\ UNCHANGED <<cfg, cached_files, s3parcp_lock, s3_objects, s3_puts,
                   s3_copies, s3_downloads, local_files, warnings>>

\* ------------------------------------------------------------- workflow
RunId == <<"20261104_000000_wf">>
RunDir == <<"run">>

\* a rewriter that returns the path it was given
rewriter_same(ledger, fd) ==
    [raised |-> "", value |-> fd.value, warned |-> 0]

\* rewriter(fd) of write_outputs_s3_json: the URI of an uploaded value; for
\* any other value the handler warns and then reads fn, which the enclosing
\* function binds only after the rewrite (line 267): a NameError
rewriter(ledger, fd) ==
    IF inode(fd.value) \in DOMAIN ledger
    THEN [raised |-> "", value |-> ledger[inode(fd.value)], warned |-> 0]
    ELSE [raised |-> "NameError", value |-> <<>>, warned |-> 1]

\* WDL.Value.rewrite_env_paths(outputs, rewriter), which stops at the first
\* exception
RECURSIVE rewrite_outputs(_, _, _, _)
rewrite_outputs(ledger, outputs, i, acc) ==
    IF i > Len(outputs)
    THEN [raised |-> "", outputs_s3 |-> acc, warned |-> 0]
    ELSE IF ~IsPath(outputs[i])
    THEN rewrite_outputs(ledger, outputs, i + 1, Append(acc, outputs[i]))
    ELSE LET r == rewriter(ledger, outputs[i])
         IN  IF r.raised # ""
             THEN [raised |-> r.raised, outputs_s3 |-> <<>>, warned |-> r.warned]
             ELSE rewrite_outputs(ledger, outputs, i + 1,
                    Append(acc, [type |-> outputs[i].type, value |-> r.value]))

WorkflowCall(t) ==
    /\ pc[t] = "idle"
    /\ frame' = [frame EXCEPT ![t].op = "workflow"]
    /\ pc' = [pc EXCEPT ![t] = IF cfg.uri_prefix THEN "rewrite" ELSE "done"]
    /\ UNCHANGED <<cfg, uploaded_files, cached_files, uploaded_files_lock,
                   s3parcp_lock, s3_objects, s3_puts, s3_copies, s3_downloads,
                   local_files, warnings>>

\* with _uploaded_files_lock: outputs_s3 = rewrite_env_paths(outputs, rewriter)
WorkflowRewrite(t) ==
    /\ pc[t] = "rewrite"
    /\ uploaded_files_lock = NoThread
    /\ \E outputs \in Bindings :
       LET r == rewrite_outputs(uploaded_files, outputs, 1, <<>>)
       IN  /\ warnings' = warnings + r.warned
           /\ IF r.raised # ""
              THEN /\ pc' = [pc EXCEPT ![t] = "failed"]
                   /\ frame' = [frame EXCEPT ![t].outputs = outputs,
                                             ![t].seen = Restrict(uploaded_files, Refs(outputs)),
                                             ![t].err = r.raised]
                   /\ uploaded_files_lock' = NoThread
              ELSE /\ pc' = [pc EXCEPT ![t] = "unlock"]
                   /\ frame' = [frame EXCEPT ![t].outputs = outputs,
                                             ![t].seen = Restrict(uploaded_files, Refs(outputs)),
                                             ![t].body = r.outputs_s3,
                                             ![t].ret = "write_json"]
                   /\ uploaded_files_lock' = t
    /\ UNCHANGED <<cfg, uploaded_files, cached_files, s3parcp_lock, s3_objects,
                   s3_puts, s3_copies, s3_downloads, local_files>>

\* outputs.s3.json is written to the run directory; s3cp is called on it
WorkflowWriteJson(t) ==
    /\ pc[t] = "write_json"
    /\ local_files' = local_files \cup
            {[fn |-> join(RunDir, <<"outputs.s3.json">>), content |-> frame[t].body]}
    /\ frame' = [frame EXCEPT
            ![t].abs_fn = join(RunDir, <<"outputs.s3.json">>),
            ![t].s3uri = join(join(S3Prefix, SubSeq(RunId, 2, Len(RunId))),
                              <<"outputs.s3.json">>),
            ![t].ret = "done"]
    /\ pc' = [pc EXCEPT ![t] = "s3cp"]
    /\ UNCHANGED <<cfg, uploaded_files, cached_files, uploaded_files_lock,
                   s3parcp_lock, s3_objects, s3_puts, s3_copies, s3_downloads,
                   warnings>>

\* ------------------------------------------------------------- CallCache.get
\* get_s3_get_prefix(cfg): "" stands for the lookup of a missing option
get_s3_get_prefix(c) ==
    IF c.call_cache_get_uri_prefix
    THEN [raised |-> "", prefix |-> S3GetPrefix]
    ELSE IF c.uri_prefix
    THEN [raised |-> "", prefix |-> S3Prefix]
    ELSE [raised |-> "ConfigError", prefix |-> <<>>]

CallCacheGet(t) ==
    /\ pc[t] = "idle"
    /\ cfg.backend = Backend
    /\ \E key \in Keys :
        LET g == get_s3_get_prefix(cfg)
        IN  /\ frame' = [frame EXCEPT
                    ![t].op = "get", ![t].key = key, ![t].err = g.raised,
                    ![t].s3uri = IF g.raised = "" 
                                 THEN join(g.prefix, <<"cache", KeyFile[key]>>)
                                 ELSE <<>>]
            /\ pc' = [pc EXCEPT ![t] = IF g.raised = "" THEN "download" ELSE "failed"]
    /\ UNCHANGED <<cfg, uploaded_files, cached_files, uploaded_files_lock,
                   s3parcp_lock, s3_objects, s3_puts, s3_copies, s3_downloads,
                   local_files, warnings>>

\* get re-raising every ClientError, the not-found one included
download_next_strict(code) ==
    IF code = "200" THEN "local_get" ELSE "failed"

\* what get does with the response of s3_client.download_file
download_next(code) ==
    IF code \in {"200", "404"} THEN "local_get" ELSE "failed"

CallCacheDownload(t) ==
    /\ pc[t] = "download"
    /\ s3_downloads' = s3_downloads \cup {[by |-> t, uri |-> frame[t].s3uri]}
    /\ \E code \in {"200", "404", "403"} :
        /\ pc' = [pc EXCEPT ![t] = download_next(code)]
        /\ frame' = [frame EXCEPT
                ![t].result = code,
                ![t].err = IF download_next(code) = "failed" THEN "ClientError" ELSE ""]
    /\ UNCHANGED <<cfg, uploaded_files, cached_files, uploaded_files_lock,
                   s3parcp_lock, s3_objects, s3_puts, s3_copies, local_files,
                   warnings>>

\* super().get(key, inputs, output_types): the local store's answer
CallCacheLocalGet(t) ==
    /\ pc[t] = "local_get"
    /\ \E hit \in {"hit", "miss"} :
        frame' = [frame EXCEPT ![t].result = hit]
    /\ pc' = [pc EXCEPT ![t] = "done"]
    /\ UNCHANGED <<cfg, uploaded_files, cached_files, uploaded_files_lock,
                   s3parcp_lock, s3_objects, s3_puts, s3_copies, s3_downloads,
                   local_files, warnings>>

\* ------------------------------------------------------------- the system
\* the steps of the task hooks of the threads T
TaskNext(T) ==
    \/ \E t \in T : TaskCall(t)
    \/ \E t \in T : TaskReturn(t)
    \/ \E t \in T : TaskFileOutput(t)
    \/ \E t \in T : TaskDirectoryOutput(t)
    \/ \E t \in T : TaskArrayOutput(t)
    \/ \E t \in T : TaskNextEntry(t)
    \/ \E t \in T : TaskNextOutput(t)
    \/ \E t \in T : UploadRecord(t)

\* the hosts below run one task hook
OneTask == {"t1"}

\* the steps of the cache inserts of the threads P
PutNext(P) ==
    \/ \E t \in P : CallCachePut(t)
    \/ \E t \in P : CallCachePutLocked(t)

InitNoPrefix == Init /\ ~cfg.uri_prefix

\* the hosts below do not configure a prefix for cache reads
InitHooks == Init /\ ~cfg.call_cache_get_uri_prefix

\* a task hook and one cache insert
NextCache ==
    \/ TaskNext(OneTask)
    \/ PutNext({"p1"})
    \/ \E t \in {"p1"} \cup OneTask : CachePutObject(t)
    \/ \E t \in {"p1"} \cup OneTask : CacheFlagTemporary(t)
    \/ \E t \in {"p1"} \cup OneTask : Unlock(t)
    \/ \E t \in OneTask : S3cpRun(t)
    \/ \E t \in OneTask : S3cpExit(t)

SpecCache == InitHooks /\ [][NextCache]_vars

\* a task hook whose outputs are single files, and two cache inserts
NextInserts ==
    \/ \E t \in OneTask : TaskCall(t)
    \/ \E t \in OneTask : TaskReturn(t)
    \/ \E t \in OneTask : TaskFileOutput(t)
    \/ \E t \in OneTask : UploadRecord(t)
    \/ PutNext(PutThreads)
    \/ \E t \in PutThreads \cup OneTask : CachePutObject(t)
    \/ \E t \in PutThreads \cup OneTask : CacheFlagTemporary(t)
    \/ \E t \in PutThreads \cup OneTask : Unlock(t)
    \/ \E t \in OneTask : S3cpRun(t)
    \/ \E t \in OneTask : S3cpExit(t)

SpecInserts == InitHooks /\ [][NextInserts]_vars

\* a task hook and the workflow finalizer
NextWorkflow ==
    \/ TaskNext(OneTask)
    \/ \E t \in OneTask \cup WorkflowThreads : Unlock(t)
    \/ \E t \in OneTask \cup WorkflowThreads : S3cpRun(t)
    \/ \E t \in OneTask \cup WorkflowThreads : S3cpExit(t)
    \/ \E t \in WorkflowThreads : WorkflowCall(t)
    \/ \E t \in WorkflowThreads : WorkflowRewrite(t)
    \/ \E t \in WorkflowThreads : WorkflowWriteJson(t)

SpecWorkflow == InitHooks /\ [][NextWorkflow]_vars

\* every operation on a host that configures no destination prefix
NextNoPrefix ==
    \/ \E t \in OneTask : TaskCall(t)
    \/ \E t \in WorkflowThreads : WorkflowCall(t)
    \/ PutNext(PutThreads)
    \/ \E t \in PutThreads : Unlock(t)
    \/ \E t \in GetThreads : CallCacheGet(t)
    \/ \E t \in GetThreads : CallCacheDownload(t)
    \/ \E t \in GetThreads : CallCacheLocalGet(t)

SpecNoPrefix == InitNoPrefix /\ [][NextNoPrefix]_vars

\* two task hooks whose outputs are single files, and the finalizer
NextCopies ==
    \/ \E t \in TaskThreads : TaskCall(t)
    \/ \E t \in TaskThreads : TaskReturn(t)
    \/ \E t \in TaskThreads : TaskFileOutput(t)
    \/ \E t \in TaskThreads : UploadRecord(t)
    \/ \E t \in TaskThreads \cup WorkflowThreads : Unlock(t)
    \/ \E t \in TaskThreads \cup WorkflowThreads : S3cpRun(t)
    \/ \E t \in TaskThreads \cup WorkflowThreads : S3cpExit(t)
    \/ \E t \in WorkflowThreads : WorkflowCall(t)
    \/ \E t \in WorkflowThreads : WorkflowRewrite(t)
    \/ \E t \in WorkflowThreads : WorkflowWriteJson(t)

SpecCopies == InitHooks /\ [][NextCopies]_vars

\* a cache lookup and a cache insert, on any host
NextLookup ==
    \/ \E t \in GetThreads : CallCacheGet(t)
    \/ \E t \in GetThreads : CallCacheDownload(t)
    \/ \E t \in GetThreads : CallCacheLocalGet(t)
    \/ PutNext({"p1"})
    \/ \E t \in {"p1"} : CachePutObject(t)
    \/ \E t \in {"p1"} : CacheFlagTemporary(t)
    \/ \E t \in {"p1"} : Unlock(t)

SpecLookup == Init /\ [][NextLookup]_vars

\* the threads that take the two locks
LockThreads == TaskThreads \cup {"p1"} \cup WorkflowThreads

\* a task whose out/ holds one output with one file
SingleFileOutput(t) == TaskFileOutput(t) /\ frame'[t].n_outputs <= 1

\* an insert of one binding
SingleBindingPut(t) == CallCachePutLocked(t) /\ Len(frame'[t].outputs) <= 1

\* a workflow with one output
SingleBindingRewrite(t) == WorkflowRewrite(t) /\ Len(frame'[t].outputs) <= 1

\* two task hooks, a cache insert and the finalizer, all running until they
\* return or fail
NextLocks ==
    \/ \E t \in TaskThreads : TaskCall(t)
    \/ \E t \in TaskThreads : TaskReturn(t)
    \/ \E t \in TaskThreads : SingleFileOutput(t)
    \/ \E t \in TaskThreads : UploadRecord(t)
    \/ \E t \in {"p1"} : CallCachePut(t)
    \/ \E t \in {"p1"} : SingleBindingPut(t)
    \/ \E t \in LockThreads : CachePutObject(t)
    \/ \E t \in LockThreads : CacheFlagTemporary(t)
    \/ \E t \in LockThreads : Unlock(t)
    \/ \E t \in LockThreads : S3cpRun(t)
    \/ \E t \in LockThreads : S3cpExit(t)
    \/ \E t \in WorkflowThreads : WorkflowCall(t)
    \/ \E t \in WorkflowThreads : SingleBindingRewrite(t)
    \/ \E t \in WorkflowThreads : WorkflowWriteJson(t)

\* the scheduler runs some thread as long as one can take a step
SpecLocks == InitHooks /\ [][NextLocks]_vars /\ WF_vars(NextLocks)

\* ------------------------------------------------------------- properties
\* the bindings with every File and Directory value replaced by its ledger URI
Resolved(ledger, outputs) ==
    [i \in 1..Len(outputs) |->
        IF IsPath(outputs[i])
        THEN [type |-> outputs[i].type, value |-> ledger[inode(outputs[i].value)]]
        ELSE outputs[i]]

ManifestUri(key) == <<S3Prefix[1], "cache", KeyFile[key]>>

\* the insert of thread t ran its locked block
Inserted(t) == frame[t].op = "put" /\ pc[t] \in {"put_object", "flag_temporary", "unlock", "done"}
\* ... and found a referenced identity absent from the ledger
Deferred(t) == Inserted(t) /\ ~(Refs(frame[t].outputs) \subseteq DOMAIN frame[t].seen)

\* C1: every manifest in the bucket has all its File and Directory values
\* resolved; a thread that publishes a manifest (from an insert or from
\* upload_file) finds every identity the bindings reference in the ledger;
\* and an insert that found a referenced identity absent publishes nothing
C1_ManifestsReferenceUploadedOnly ==
    /\ \A u \in DOMAIN s3_objects : \A i \in DOMAIN s3_objects[u].body :
            IsPath(s3_objects[u].body[i]) => s3_objects[u].body[i].value # EmptyStr
    /\ \A t \in Threads :
            frame[t].cache_uri # <<>> =>
                Refs(frame[t].cache_outputs) \subseteq DOMAIN uploaded_files
    /\ \A t \in PutThreads : Deferred(t) => frame[t].cache_uri = <<>>

\* an insert was deferred and published nothing, and upload_file later
\* published a manifest with a File or Directory value
C1_Witness ==
    /\ \E t \in PutThreads : pc[t] = "done" /\ Deferred(t)
    /\ \E u \in DOMAIN s3_objects : \E i \in DOMAIN s3_objects[u].body :
            IsPath(s3_objects[u].body[i])

OnlyFiles(outputs) == \A i \in DOMAIN outputs : outputs[i].type # "Directory"

\* C2: a deferred insert (of files) stays unpublished while a file is
\* missing, and the step that records its last missing file in the ledger
\* leaves the recording thread about to put the manifest, every value
\* resolved
C2_PublishedWithLastUpload ==
    [][\A p \in PutThreads :
        (Deferred(p) /\ OnlyFiles(frame[p].outputs)
            /\ ~(Refs(frame[p].outputs) \subseteq DOMAIN uploaded_files))
        => /\ s3_puts[frame[p].key] = 0
           /\ Refs(frame[p].outputs) \subseteq DOMAIN uploaded_files'
                => \E t \in TaskThreads :
                        /\ pc'[t] = "put_object"
                        /\ frame'[t].cache_uri = ManifestUri(frame[p].key)
                        /\ frame'[t].body = Resolved(uploaded_files', frame[p].outputs)
      ]_vars

\* C3: the manifest of a deferred insert is put at most once
C3_PublishedOnce ==
    \A p \in PutThreads : Deferred(p) => s3_puts[frame[p].key] <= 1

\* C4: an insert that found only files missing, raced by the uploads of
\* those files: once both threads are out of their locked blocks and every
\* referenced identity is in the ledger, the manifest is in the bucket
C4_RaceEndsPublished ==
    \A p \in PutThreads :
        (/\ cfg.put /\ cfg.uri_prefix
         /\ Inserted(p) /\ pc[p] = "done"
         /\ (Refs(frame[p].outputs) \ DOMAIN frame[p].seen) \subseteq FileInodes
         /\ Refs(frame[p].outputs) \subseteq DOMAIN uploaded_files
         /\ uploaded_files_lock = NoThread)
        => /\ s3_puts[frame[p].key] >= 1
           /\ ManifestUri(frame[p].key) \in DOMAIN s3_objects

\* the insert found a file missing, and the upload that followed published
C4_Witness ==
    \E p \in PutThreads :
        /\ pc[p] = "done" /\ Deferred(p)
        /\ (Refs(frame[p].outputs) \ DOMAIN frame[p].seen) \subseteq FileInodes
        /\ Refs(frame[p].outputs) \subseteq DOMAIN uploaded_files
        /\ uploaded_files_lock = NoThread
        /\ s3_puts[frame[p].key] >= 1

\* C5: an insert (cache writes on, a destination prefix configured) that
\* finds every referenced identity in the ledger puts, before it returns, one
\* manifest at <prefix>/cache/<key>.json whose File and Directory values are
\* the ledger's URIs, and tags it
C5_InsertPublishes ==
    \A p \in PutThreads :
        (/\ cfg.put /\ cfg.uri_prefix
         /\ Inserted(p)
         /\ Refs(frame[p].outputs) \subseteq DOMAIN frame[p].seen)
        => /\ frame[p].cache_uri = ManifestUri(frame[p].key)
           /\ frame[p].body = Resolved(frame[p].seen, frame[p].outputs)
           /\ pc[p] \in {"flag_temporary", "unlock"} =>
                /\ s3_puts[frame[p].key] = 1
                /\ s3_objects[ManifestUri(frame[p].key)].body =
                        Resolved(frame[p].seen, frame[p].outputs)
           /\ pc[p] = "unlock" => s3_objects[ManifestUri(frame[p].key)].tagged
           /\ pc[p] = "done" =>
                /\ s3_puts[frame[p].key] >= 1
                /\ ManifestUri(frame[p].key) \in DOMAIN s3_objects

\* an insert of two uploaded values has returned, its manifest tagged
C5_Witness ==
    \E p \in PutThreads :
        /\ cfg.put /\ pc[p] = "done" /\ Inserted(p)
        /\ Cardinality(Refs(frame[p].outputs)) = 2
        /\ Refs(frame[p].outputs) \subseteq DOMAIN frame[p].seen
        /\ ManifestUri(frame[p].key) \in DOMAIN s3_objects
        /\ s3_objects[ManifestUri(frame[p].key)].tagged
        /\ s3_objects[ManifestUri(frame[p].key)].body =
                Resolved(frame[p].seen, frame[p].outputs)

\* C6: a copy that exits non-zero fails the hook with RuntimeError in a
\* step that writes neither the ledger nor the registry nor a manifest, and
\* the failed hook takes no further step
C6_CopyFailureWritesNothing ==
    [][\A t \in TaskThreads :
        /\ (pc[t] = "s3parcp" /\ pc'[t] # "s3parcp" /\ frame'[t].returncode # 0)
            => /\ pc'[t] = "failed"
               /\ frame'[t].err = "RuntimeError"
               /\ UNCHANGED <<uploaded_files, cached_files, s3_objects, s3_puts>>
        /\ pc[t] = "failed" => pc'[t] = "failed" /\ frame'[t] = frame[t]
      ]_vars

\* the copy of a file that a deferred insert waits for has failed
C6_Witness ==
    \E t \in TaskThreads :
        /\ pc[t] = "failed" /\ frame[t].err = "RuntimeError"
        /\ inode(frame[t].abs_fn) \in DOMAIN cached_files
        /\ inode(frame[t].abs_fn) \notin DOMAIN uploaded_files
        /\ s3_puts[cached_files[inode(frame[t].abs_fn)].key] = 0

\* the finalizer of thread t ran its rewrite
Rewrote(t) == frame[t].op = "workflow" /\ frame[t].outputs # <<>>
Unuploaded(t) ==
    {i \in DOMAIN frame[t].outputs :
        IsPath(frame[t].outputs[i])
            /\ inode(frame[t].outputs[i].value) \notin DOMAIN frame[t].seen}
\* the manifest with uploaded values rewritten and the others kept
Kept(ledger, outputs) ==
    [i \in 1..Len(outputs) |->
        IF IsPath(outputs[i]) /\ inode(outputs[i].value) \in DOMAIN ledger
        THEN [type |-> outputs[i].type, value |-> ledger[inode(outputs[i].value)]]
        ELSE outputs[i]]
ManifestWritten(t) ==
    [fn |-> <<RunDir[1], "outputs.s3.json">>, content |-> frame[t].body]
        \in local_files

\* C7: the finalizer does not fail on a value that was not uploaded: it
\* keeps the local path, warns once per such value, writes the manifest and
\* calls the copy on it
C7_UnuploadedKeepsLocalPath ==
    \A t \in WorkflowThreads :
        Rewrote(t)
        => /\ frame[t].err # "NameError"
           /\ frame[t].body = Kept(frame[t].seen, frame[t].outputs)
           /\ warnings = Cardinality(Unuploaded(t))
           /\ pc[t] \in {"s3cp", "s3parcp", "done"} => ManifestWritten(t)

\* C8: a rewrite that finds every referenced identity in the ledger yields
\* the manifest with each File and Directory value replaced by its ledger
\* URI, a remote one, and every other value as it was; that manifest is
\* what is written to the run directory
C8_AllUploadedAllRemote ==
    \A t \in WorkflowThreads :
        (Rewrote(t) /\ Refs(frame[t].outputs) \subseteq DOMAIN frame[t].seen)
        => /\ frame[t].err # "NameError"
           /\ frame[t].body = Resolved(frame[t].seen, frame[t].outputs)
           /\ \A i \in DOMAIN frame[t].outputs :
                IF IsPath(frame[t].outputs[i])
                THEN frame[t].body[i].value[1] = S3Prefix[1]
                ELSE frame[t].body[i] = frame[t].outputs[i]
           /\ warnings = 0
           /\ pc[t] \in {"s3cp", "s3parcp", "done"} => ManifestWritten(t)

\* a manifest of an uploaded file and a plain value was rewritten and copied
C8_Witness ==
    \E t \in WorkflowThreads :
        /\ pc[t] = "done" /\ Rewrote(t)
        /\ \E i, j \in DOMAIN frame[t].outputs :
                IsPath(frame[t].outputs[i]) /\ ~IsPath(frame[t].outputs[j])
        /\ frame[t].body = Resolved(frame[t].seen, frame[t].outputs)
        /\ ManifestWritten(t)

\* C9: without a destination prefix no operation fails, reads or writes the
\* bucket, runs the copy tool or writes the ledger
C9_NoPrefixIsNoOp ==
    ~cfg.uri_prefix
    => /\ \A t \in Threads : pc[t] # "failed"
       /\ s3_downloads = {}
       /\ s3_objects = <<>>
       /\ \A t \in Threads : s3_copies[t] = 0
       /\ uploaded_files = <<>>

\* C10: the hook of a run whose id marks a download returns at once: it never
\* runs the copy tool and no step of it writes the ledger or the registry
C10_DownloadRunUploadsNothing ==
    [][\A t \in TaskThreads :
        frame'[t].download
        => /\ pc'[t] \in {"idle", "done"}
           /\ s3_copies'[t] = 0
           /\ pc'[t] # pc[t] => UNCHANGED <<uploaded_files, cached_files>>
      ]_vars

\* a download run's hook has returned on a host with a destination prefix,
\* with an insert pending
C10_Witness ==
    \E t \in TaskThreads :
        /\ frame[t].download /\ pc[t] = "done" /\ cfg.uri_prefix
        /\ cached_files # <<>>
        /\ uploaded_files = <<>>

\* C11: at most one thread is inside the copy tool at any time, and it is
\* the holder of _s3parcp_lock
C11_OneCopyAtATime ==
    /\ Cardinality({t \in Threads : pc[t] = "s3parcp"}) <= 1
    /\ \A t \in Threads : pc[t] = "s3parcp" => s3parcp_lock = t

\* a task hook runs the copy tool while the other hook and the finalizer
\* both wait to run it
C11_Witness ==
    \E t \in TaskThreads, u \in TaskThreads, w \in WorkflowThreads :
        t # u /\ pc[t] = "s3parcp" /\ pc[u] = "s3cp" /\ pc[w] = "s3cp"

\* C12: a lookup whose download is answered not-found goes on, without an
\* error, to the local store and returns what that store answers; a lookup
\* whose download fails in any other way fails with that error and never
\* reaches the local store
C12_NotFoundIsAMiss ==
    [][\A g \in GetThreads :
        /\ (pc[g] = "download" /\ pc'[g] # "download")
            => /\ frame'[g].result = "404"
                    => pc'[g] = "local_get" /\ frame'[g].err = ""
               /\ frame'[g].result \notin {"200", "404"}
                    => pc'[g] = "failed" /\ frame'[g].err = "ClientError"
        /\ (pc[g] = "local_get" /\ pc'[g] # "local_get")
            => pc'[g] = "done" /\ frame'[g].result \in {"hit", "miss"}
        /\ pc[g] = "failed" => pc'[g] = "failed" /\ frame'[g] = frame[g]
      ]_vars

\* the download was answered not-found and the lookup is at the local store
C12_Witness ==
    \E g \in GetThreads :
        pc[g] = "local_get" /\ frame[g].result = "404" /\ frame[g].err = ""

\* the step of thread t is made inside `with _uploaded_files_lock:': t holds
\* the lock after it, or took the free lock and left the block by raising
InLockedBlock(t) ==
    \/ uploaded_files_lock' = t
    \/ uploaded_files_lock = NoThread /\ pc'[t] = "failed"

\* C13: every step that writes the ledger or the registry, and every step
\* that reads them (the insert's, upload_file's and the finalizer's), is made
\* by a thread inside the locked block
C13_AccessUnderLock ==
    [][\A t \in Threads :
        pc'[t] # pc[t]
        => /\ (uploaded_files' # uploaded_files \/ cached_files' # cached_files)
                => InLockedBlock(t)
           /\ pc[t] \in {"put_lock", "record", "rewrite"} => InLockedBlock(t)
      ]_vars

\* C14: a thread that puts a manifest, tags it or starts the copy tool does
\* not hold _uploaded_files_lock in that step
C14_NoNetworkUnderLock ==
    [][\A t \in Threads :
        (\/ pc[t] = "put_object" /\ pc'[t] = "flag_temporary"
         \/ pc[t] = "flag_temporary" /\ pc'[t] = "unlock"
         \/ pc[t] = "s3cp" /\ pc'[t] = "s3parcp")
        => uploaded_files_lock # t
      ]_vars

\* C15: a deferred insert (of files) stays registered under every
\* referenced identity that is not yet in the ledger, whatever other
\* inserts are made, and its manifest is in the bucket once every referenced
\* identity is in the ledger and the recording thread has left its block
C15_OverlappingInsertsIndependent ==
    \A p \in PutThreads :
        (Deferred(p) /\ OnlyFiles(frame[p].outputs))
        => /\ \A i \in Refs(frame[p].outputs) \ DOMAIN uploaded_files :
                /\ i \in DOMAIN cached_files
                /\ cached_files[i].key = frame[p].key
           /\ (Refs(frame[p].outputs) \subseteq DOMAIN uploaded_files
                    /\ uploaded_files_lock = NoThread)
                => ManifestUri(frame[p].key) \in DOMAIN s3_objects

\* C16: the locked block of an insert writes registry entries only under
\* identities that are not in the ledger; when every referenced identity
\* is in the ledger it leaves the registry as it was
C16_RegistersUnresolvedOnly ==
    [][\A p \in PutThreads :
        (pc[p] = "put_lock" /\ pc'[p] # "put_lock")
        => /\ \A i \in DOMAIN cached_files' :
                (i \notin DOMAIN cached_files \/ cached_files'[i] # cached_files[i])
                    => i \notin DOMAIN uploaded_files
           /\ Refs(frame'[p].outputs) \subseteq DOMAIN uploaded_files
                => cached_files' = cached_files
      ]_vars

\* C17: the step that records a directory's identity in the ledger, when
\* that identity was the last one a deferred insert was waiting for, leaves
\* the recording thread about to put that insert's manifest
C17_DirectoryRecordFinalizes ==
    [][\A p \in PutThreads :
        (/\ Deferred(p)
         /\ DirInode \in Refs(frame[p].outputs) \ DOMAIN uploaded_files
         /\ Refs(frame[p].outputs) \subseteq DOMAIN uploaded_files')
        => \E t \in TaskThreads :
                /\ pc'[t] = "put_object"
                /\ frame'[t].cache_uri = ManifestUri(frame[p].key)
                /\ frame'[t].body = Resolved(uploaded_files', frame[p].outputs)
      ]_vars

\* C18: no step removes a ledger entry or changes the URI an identity maps
\* to
C18_LedgerEntriesStable ==
    [][\A i \in DOMAIN uploaded_files :
        i \in DOMAIN uploaded_files' /\ uploaded_files'[i] = uploaded_files[i]
      ]_vars

\* C19: two distinct identities in the ledger never map to one remote URI
C19_DistinctIdentitiesDistinctUris ==
    \A i, j \in DOMAIN uploaded_files :
        i # j => uploaded_files[i] # uploaded_files[j]

\* C20: no thread holds both locks, no thread is about to take a lock it
\* holds, and with every copy and remote call returning every operation
\* comes to its end, by returning or by raising
C20_LocksNeverDeadlock ==
    /\ [](\A t \in Threads :
            /\ ~(uploaded_files_lock = t /\ s3parcp_lock = t)
            /\ pc[t] \in {"put_lock", "record", "rewrite"} => uploaded_files_lock # t
            /\ pc[t] = "s3cp" => s3parcp_lock # t)
    /\ <>(\A t \in LockThreads : pc[t] \in {"done", "failed"})

\* all four operations are over, every hook and the finalizer ran the copy
\* tool, and a manifest was put under the ledger lock
C20_Witness ==
    /\ \A t \in LockThreads : pc[t] \in {"done", "failed"}
    /\ \A t \in TaskThreads \cup WorkflowThreads : s3_copies[t] >= 1
    /\ s3_puts["k1"] >= 1

====
